---------------------------- MODULE Spec2Model ----------------------------
(***************************************************************************)
(* Model of src/utils.py: the ontology utilities (lexical normaliser,      *)
(* overlap primitive, subtype/supertype oracle, KnowledgeGraph mutation    *)
(* engine, taxonomy traversal and root inference).                         *)
(*                                                                         *)
(* Strings are sequences of character tokens.  Classes are names; the      *)
(* taxonomy is the map from each declared class to its direct              *)
(* superclasses (owlready's is_a without the implicit owl:Thing).          *)
(***************************************************************************)
EXTENDS Integers, Sequences, FiniteSets, TLC

VARIABLES
    tax,            \* SpecTaxonomy, Spec: declared class -> set of direct superclasses
    t_last,         \* SpecTaxonomy: the last taxonomy query and its result
    o_a, o_b,       \* SpecOverlap: the two input sequences
    o_res,          \* SpecOverlap: the call overlap(o_a, o_b) and what it returned
    n_in, n_flag,   \* SpecName: input string and the `instance` flag
    n_out,          \* SpecName: results of successive owl_name applications
    nops,           \* Spec: number of KnowledgeGraph calls made so far
    hasFancyName,   \* Spec: whether the ontology declares the fancyName property
    instances,      \* Spec: individual id -> [is_instance_of, props]
    last            \* Spec: the last KnowledgeGraph call, its arguments and outcome

vars == <<tax, t_last, o_a, o_b, o_res, n_in, n_flag, n_out,
          nops, hasFancyName, instances, last>>

-----------------------------------------------------------------------------
(* Bounds *)

MaxLen == 3          \* longest input sequence given to overlap
MaxNameLen == 3      \* longest raw name given to owl_name
MaxApplications == 2 \* how many times owl_name is applied in a row
MaxOps == 3          \* how many KnowledgeGraph calls a behaviour makes

None == "None"

SeqsUpTo(S, n) == UNION {[1..k -> S] : k \in 0..n}

RECURSIVE SetToSeq(_)
SetToSeq(S) == IF S = {} THEN <<>>
               ELSE LET x == CHOOSE y \in S : TRUE IN <<x>> \o SetToSeq(S \ {x})

Range(s) == {s[i] : i \in DOMAIN s}

-----------------------------------------------------------------------------
(* overlap: src/utils.py 33-57 *)

Elems == {"x", "y", "z"}

\* One evaluation of the while loop, as a recursion on the loop's variables.
\* ia, ib are the positions of iter_a, iter_b; rounds counts loop iterations.
RECURSIVE overlap_loop(_, _, _, _, _, _, _, _, _)
overlap_loop(a, b, ia, ib, met_in_a, met_in_b, over_a, over_b, rounds) ==
    IF over_a /\ over_b THEN [ret |-> FALSE, rounds |-> rounds]
    ELSE
      LET pullA  == ~over_a /\ ia <= Len(a)           \* next(iter_a) yields
          hitA   == pullA /\ a[ia] \in met_in_b
          metA2  == IF pullA THEN met_in_a \cup {a[ia]} ELSE met_in_a
          ia2    == IF pullA THEN ia + 1 ELSE ia
          overA2 == over_a \/ ~pullA                   \* StopIteration
          pullB  == ~over_b /\ ib <= Len(b)
          hitB   == pullB /\ b[ib] \in metA2
          metB2  == IF pullB THEN met_in_b \cup {b[ib]} ELSE met_in_b
          ib2    == IF pullB THEN ib + 1 ELSE ib
          overB2 == over_b \/ ~pullB
      IN IF hitA THEN [ret |-> TRUE, rounds |-> rounds + 1]
         ELSE IF hitB THEN [ret |-> TRUE, rounds |-> rounds + 1]
         ELSE overlap_loop(a, b, ia2, ib2, metA2, metB2, overA2, overB2, rounds + 1)

\* The loop without the test of item_a against met_in_b: only the elements
\* pulled from b are looked up on the other side.
RECURSIVE overlap_loop_oneway(_, _, _, _, _, _, _, _, _)
overlap_loop_oneway(a, b, ia, ib, met_in_a, met_in_b, over_a, over_b, rounds) ==
    IF over_a /\ over_b THEN [ret |-> FALSE, rounds |-> rounds]
    ELSE
      LET pullA  == ~over_a /\ ia <= Len(a)
          metA2  == IF pullA THEN met_in_a \cup {a[ia]} ELSE met_in_a
          ia2    == IF pullA THEN ia + 1 ELSE ia
          overA2 == over_a \/ ~pullA
          pullB  == ~over_b /\ ib <= Len(b)
          hitB   == pullB /\ b[ib] \in metA2
          metB2  == IF pullB THEN met_in_b \cup {b[ib]} ELSE met_in_b
          ib2    == IF pullB THEN ib + 1 ELSE ib
          overB2 == over_b \/ ~pullB
      IN IF hitB THEN [ret |-> TRUE, rounds |-> rounds + 1]
         ELSE overlap_loop_oneway(a, b, ia2, ib2, metA2, metB2, overA2, overB2, rounds + 1)

overlap_oneway(a, b) == overlap_loop_oneway(a, b, 1, 1, {}, {}, FALSE, FALSE, 0)

overlap_run(a, b) == overlap_loop(a, b, 1, 1, {}, {}, FALSE, FALSE, 0)

overlap(a, b) == overlap_run(a, b).ret

-----------------------------------------------------------------------------
(* Taxonomy queries of the ontology library, as utils.py uses them *)

Thing == "Thing"
ThingClass == "ThingClass"   \* the metaclass of classes; never itself a class
ClassNames == {"Animal", "Bird", "Penguin", "Vehicle"}

RECURSIVE Up(_, _, _)
Up(is_a, S, n) == IF n = 0 THEN S
                  ELSE Up(is_a, S \cup UNION {is_a[c] : c \in S}, n - 1)

StrictAncestorsIn(is_a, c) == Up(is_a, is_a[c], Cardinality(DOMAIN is_a))

IsAcyclic(is_a) == \A c \in DOMAIN is_a : c \notin StrictAncestorsIn(is_a, c)

TaxonomiesOver(Names) ==
    UNION {{is_a \in [D -> SUBSET D] : IsAcyclic(is_a)} : D \in SUBSET Names}

declared == DOMAIN tax       \* self.onto.classes()

\* cls.ancestors(include_self): every class has owl:Thing as an ancestor
ancestors(cls, include_self) ==
    (IF include_self THEN {cls} ELSE {})
      \cup (IF cls = Thing THEN {} ELSE StrictAncestorsIn(tax, cls) \cup {Thing})

\* cls.descendants(include_self): owl:Thing has every class as a descendant
descendants(cls, include_self) ==
    (IF include_self THEN {cls} ELSE {})
      \cup (IF cls = Thing THEN declared
            ELSE {d \in declared : cls \in StrictAncestorsIn(tax, d)})

\* cls.subclasses(): the direct subclasses; a class without declared
\* superclass is a direct subclass of owl:Thing
subclasses(cls) ==
    IF cls = Thing THEN {c \in declared : tax[c] = {}}
    ELSE {c \in declared : cls \in tax[c]}

(* subtype / supertype: src/utils.py 67-72 *)

subtype_flipped(cls1, cls2, strict) ==
    overlap(<<cls1>>, SetToSeq(descendants(cls2, strict)))

subtype(cls1, cls2, strict) ==
    overlap(<<cls1>>, SetToSeq(descendants(cls2, ~strict)))

supertype(cls1, cls2, strict) ==
    overlap(<<cls1>>, SetToSeq(ancestors(cls2, ~strict)))

(* KnowledgeGraph._find_root_class: src/utils.py 98-106 *)

find_root_first ==
    LET things == {cls \in declared : ancestors(cls, TRUE) = {Thing, cls}}
    IN IF things # {} THEN CHOOSE c \in things : TRUE ELSE Thing

find_root_class ==
    LET things == {cls \in declared : ancestors(cls, TRUE) = {Thing, cls}}
    IN IF Cardinality(things) = 1 THEN CHOOSE c \in things : TRUE ELSE Thing

(* KnowledgeGraph.visit_classes_depth_first: src/utils.py 167-176 *)

RECURSIVE visit_children(_, _)
RECURSIVE visit_from(_, _)
visit_children(kids, postorder) ==
    IF kids = <<>> THEN <<>>
    ELSE visit_from(Head(kids), postorder) \o visit_children(Tail(kids), postorder)

visit_from(root, postorder) ==
    LET below == visit_children(SetToSeq(subclasses(root)), postorder)
    IN IF postorder THEN below \o <<root>> ELSE <<root>> \o below

visit_root_only_children(root, postorder) ==
    LET r == IF root = None THEN find_root_class ELSE root
        kids == SetToSeq(subclasses(r))
    IN IF postorder THEN kids \o <<r>> ELSE <<r>> \o kids

visit_classes_depth_first(root, postorder) ==
    visit_from(IF root = None THEN find_root_class ELSE root, postorder)

-----------------------------------------------------------------------------
(* owl_name and replace_symbols_with: src/utils.py 60-64, 75-82 *)

LowerLetters == <<"a", "b", "e", "i", "r", "s", "t">>
UpperLetters == <<"A", "B", "E", "I", "R", "S", "T">>
Digits == {"1"}
Underscore == "_"
Whitespace == {" "}
\* three non-ASCII characters and their transliterations
EAcute == "e_acute"
Eszett == "eszett"
CjkBei == "cjk_bei"

IndexOf(s, c) == CHOOSE i \in DOMAIN s : s[i] = c

lower_char(c) == IF c \in Range(UpperLetters)
                 THEN LowerLetters[IndexOf(UpperLetters, c)] ELSE c
upper_char(c) == IF c \in Range(LowerLetters)
                 THEN UpperLetters[IndexOf(LowerLetters, c)] ELSE c

\* PATTERN_SYMBOLS = [^A-Za-z\d_]: the characters the pattern does NOT match
IsWordChar(c) == c \in Range(LowerLetters) \cup Range(UpperLetters)
                       \cup Digits \cup {Underscore}

\* unidecode.unidecode, character by character
unidecode_char(c) ==
    CASE c = EAcute -> <<"e">>
      [] c = Eszett -> <<"s", "s">>
      [] c = CjkBei -> <<"B", "e", "i", " ">>
      [] OTHER      -> <<c>>

RECURSIVE unidecode(_)
unidecode(name) == IF name = <<>> THEN <<>>
                   ELSE unidecode_char(Head(name)) \o unidecode(Tail(name))

RECURSIVE lstrip(_)
lstrip(name) == IF name # <<>> /\ Head(name) \in Whitespace
                THEN lstrip(Tail(name)) ELSE name

RECURSIVE rstrip(_)
rstrip(name) == IF name # <<>> /\ name[Len(name)] \in Whitespace
                THEN rstrip(SubSeq(name, 1, Len(name) - 1)) ELSE name

strip(name) == rstrip(lstrip(name))

\* PATTERN_SYMBOLS.sub(replacement, name)
sub_symbols(name, replacement) ==
    [i \in DOMAIN name |-> IF IsWordChar(name[i]) THEN name[i] ELSE replacement]

\* while replaced.endswith(replacement): replaced = replaced[:-1]
RECURSIVE drop_trailing(_, _)
drop_trailing(replaced, replacement) ==
    IF replaced # <<>> /\ replaced[Len(replaced)] = replacement
    THEN drop_trailing(SubSeq(replaced, 1, Len(replaced) - 1), replacement)
    ELSE replaced

\* A plausible slip: `if` instead of `while`, one trailing separator dropped.
replace_symbols_once(name, replacement) ==
    LET replaced == sub_symbols(name, replacement)
    IN IF replaced # <<>> /\ replaced[Len(replaced)] = replacement
       THEN SubSeq(replaced, 1, Len(replaced) - 1) ELSE replaced

replace_symbols_with(name, replacement) ==
    drop_trailing(sub_symbols(name, replacement), replacement)

lower(name) == [i \in DOMAIN name |-> lower_char(name[i])]

capitalize(name) ==
    [i \in DOMAIN name |-> IF i = 1 THEN upper_char(name[i]) ELSE lower_char(name[i])]

owl_name(name, instance) ==
    LET n1 == unidecode(name)
        n2 == strip(n1)
        n3 == replace_symbols_with(n2, Underscore)
        n4 == lower(n3)
    IN IF ~instance THEN capitalize(n4) ELSE n4

NameAlphabet == {"a", "B", "1", Underscore, " ", "!", EAcute, Eszett, CjkBei}

-----------------------------------------------------------------------------
(* Specification of the graph-free functions.  Each Init draws the inputs, *)
(* each action applies the function once and records what it returned.    *)

NoCall == [op |-> "none"]
NoTax == [c \in {} |-> {}]

IdleOverlap == o_a = <<>> /\ o_b = <<>> /\ o_res = NoCall
IdleName == n_in = <<>> /\ n_flag = TRUE /\ n_out = <<>>
IdleTaxonomy == tax = NoTax /\ t_last = NoCall
IdleGraph == nops = 0 /\ hasFancyName = FALSE /\ instances = NoTax /\ last = NoCall

overlapVars == <<o_a, o_b, o_res>>
nameVars == <<n_in, n_flag, n_out>>
graphVars == <<nops, hasFancyName, instances, last>>

(* overlap *)
InitOverlap ==
    /\ o_a \in SeqsUpTo(Elems, MaxLen)
    /\ o_b \in SeqsUpTo(Elems, MaxLen)
    /\ o_res = NoCall
    /\ IdleName /\ IdleTaxonomy /\ IdleGraph

CallOverlap ==
    /\ o_res = NoCall
    /\ o_res' = [op |-> "overlap", ret |-> overlap(o_a, o_b),
                 rounds |-> overlap_run(o_a, o_b).rounds]
    /\ UNCHANGED <<o_a, o_b, nameVars, tax, t_last, graphVars>>

SpecOverlap == InitOverlap /\ [][CallOverlap]_vars

(* owl_name *)
InitName ==
    /\ n_in \in SeqsUpTo(NameAlphabet, MaxNameLen)
    /\ n_flag \in BOOLEAN
    /\ n_out = <<>>
    /\ IdleOverlap /\ IdleTaxonomy /\ IdleGraph

CallOwlName ==
    /\ Len(n_out) < MaxApplications
    /\ n_out' = Append(n_out, owl_name(IF n_out = <<>> THEN n_in
                                        ELSE n_out[Len(n_out)], n_flag))
    /\ UNCHANGED <<n_in, n_flag, overlapVars, tax, t_last, graphVars>>

SpecName == InitName /\ [][CallOwlName]_vars

(* subtype, supertype, _find_root_class, visit_classes_depth_first *)
InitTaxonomy ==
    /\ tax \in TaxonomiesOver(ClassNames)
    /\ t_last = NoCall
    /\ IdleOverlap /\ IdleName /\ IdleGraph

CallSubtype ==
    \E a \in declared \cup {Thing}, b \in declared \cup {Thing}, s \in BOOLEAN :
        /\ t_last = NoCall
        /\ t_last' =[op |-> "subtype", cls1 |-> a, cls2 |-> b, strict |-> s,
                      ret |-> subtype(a, b, s)]
        /\ UNCHANGED <<tax, overlapVars, nameVars, graphVars>>

CallSupertype ==
    \E a \in declared \cup {Thing}, b \in declared \cup {Thing}, s \in BOOLEAN :
        /\ t_last = NoCall
        /\ t_last' =[op |-> "supertype", cls1 |-> a, cls2 |-> b, strict |-> s,
                      ret |-> supertype(a, b, s)]
        /\ UNCHANGED <<tax, overlapVars, nameVars, graphVars>>

CallFindRoot ==
    /\ t_last = NoCall
    /\ t_last' =[op |-> "_find_root_class", ret |-> find_root_class]
    /\ UNCHANGED <<tax, overlapVars, nameVars, graphVars>>

CallVisit ==
    \E root \in declared \cup {Thing, None}, postorder \in BOOLEAN :
        /\ t_last = NoCall
        /\ t_last' =[op |-> "visit_classes_depth_first", root |-> root,
                      postorder |-> postorder,
                      ret |-> visit_classes_depth_first(root, postorder)]
        /\ UNCHANGED <<tax, overlapVars, nameVars, graphVars>>

NextTaxonomy == CallSubtype \/ CallSupertype \/ CallFindRoot \/ CallVisit

SpecTaxonomy == InitTaxonomy /\ [][NextTaxonomy]_vars

-----------------------------------------------------------------------------
(* KnowledgeGraph: src/utils.py 85-187.                                    *)
(*                                                                         *)
(* An individual is identified by its namespace and name (its IRI).  What  *)
(* the ontology library does for the calls the code makes:                 *)
(*  - cls.instances() are the individuals one of whose direct classes is   *)
(*    cls or a descendant of cls;                                          *)
(*  - cls(name) names an individual in cls's namespace (owl for owl:Thing, *)
(*    the ontology's for a declared class); when an individual with that   *)
(*    IRI exists it is returned, with cls appended to its classes unless   *)
(*    it is already an instance of cls; otherwise it is created with       *)
(*    is_instance_of = [cls];                                              *)
(*  - destroy_entity(e) removes e and every relation that refers to e.     *)
(* is_instance_of and property values are lists that never hold a value    *)
(* twice and whose order no operation here reads: they are sets.           *)

GraphClassNames == {"Animal", "Bird", "Penguin"}
FancyName == "fancyName"
RelatedTo == "relatedTo"
PropNames == {FancyName, RelatedTo}
RawNames == {<<"T">>, <<"r">>}
\* a literal value is a string
Literals == {[literal |-> <<"l", "i", "t">>]}

\* The taxonomies the graph is exercised on: every shape an acyclic taxonomy
\* of three classes can have (flat, one link, a class with two subclasses, a
\* class with two direct superclasses, a chain, a chain with a redundant
\* direct link to the top class).
GraphTaxonomies ==
    {t \in TaxonomiesOver(GraphClassNames) :
        t \in { [Animal |-> {}, Bird |-> {}, Penguin |-> {}],
                [Animal |-> {}, Bird |-> {"Animal"}, Penguin |-> {}],
                [Animal |-> {}, Bird |-> {"Animal"}, Penguin |-> {"Animal"}],
                [Animal |-> {}, Bird |-> {}, Penguin |-> {"Animal", "Bird"}],
                [Animal |-> {}, Bird |-> {"Animal"}, Penguin |-> {"Bird"}],
                [Animal |-> {}, Bird |-> {"Animal"}, Penguin |-> {"Animal", "Bird"}] }}

\* every individual the calls below can name, in the graph or not
InstanceIds == [ns : {"onto", "owl"}, name : {owl_name(raw, TRUE) : raw \in RawNames}]

class_namespace(cls) == IF cls = Thing THEN "owl" ELSE "onto"

NoProps == [p \in PropNames |-> {}]

existing == DOMAIN instances

\* cls.instances()
instances_of(cls) ==
    {id \in existing :
        instances[id].is_instance_of \cap descendants(cls, TRUE) # {}}

\* add_property: the property's values after the call
add_property(props, property, value) ==
    [props EXCEPT ![property] = @ \cup {value}]

\* set_class_of_instance without the removal of the too generic classes
set_class_keep_generic(is_instance_of, cls) ==
    LET too_specific == {c \in is_instance_of : subtype(c, cls, FALSE)}
        appended == IF too_specific = {} THEN is_instance_of \cup {cls}
                    ELSE is_instance_of
    IN IF Cardinality(appended) > 1 /\ ThingClass \in appended
       THEN appended \ {Thing} ELSE appended

\* set_class_of_instance: instance.is_instance_of after the call.  The test
\* of line 126 looks for ThingClass, the metaclass, among the classes.
set_class_of_instance(is_instance_of, cls) ==
    LET too_generic_types == {c \in is_instance_of : supertype(c, cls, TRUE)}
        too_specific_types == {c \in is_instance_of : subtype(c, cls, FALSE)}
        removed == is_instance_of \ too_generic_types
        appended == IF too_specific_types = {} THEN removed \cup {cls}
                    ELSE removed
    IN IF Cardinality(appended) > 1 /\ ThingClass \in appended
       THEN appended \ {Thing} ELSE appended

\* owlready.destroy_entity(e)
destroy_entity(insts, e) ==
    [id \in DOMAIN insts \ {e} |->
        [insts[id] EXCEPT !.props = [p \in PropNames |-> insts[id].props[p] \ {e}]]]

\* lines 149-150 of add_instance, on the graph g
with_fancy_name(g, id, name, fancy_name) ==
    IF hasFancyName /\ name # fancy_name
    THEN [g EXCEPT ![id].props = add_property(@, FancyName, [literal |-> fancy_name])]
    ELSE g

\* what every KnowledgeGraph call leaves alone
Called ==
    /\ nops' = nops + 1
    /\ UNCHANGED <<tax, hasFancyName, t_last, overlapVars, nameVars>>

InitGraph ==
    /\ tax \in GraphTaxonomies
    /\ hasFancyName \in BOOLEAN
    /\ instances = NoTax
    /\ last = NoCall
    /\ nops = 0
    /\ t_last = NoCall
    /\ IdleOverlap /\ IdleName

\* add_to_class_if_existing ignored: an existing individual is always reused
found_outcome_always_reuse(add_to_class_if_existing) == "reclassified"

\* lines 142-146: what add_instance does with the individual it found
found_outcome(add_to_class_if_existing) ==
    IF add_to_class_if_existing THEN "reclassified" ELSE "KeyError"

\* add_instance(cls, name, add_to_class_if_existing) finding an individual
\* of that name among cls.instances(): reclassified, or KeyError
AddInstanceExisting ==
    /\ nops < MaxOps
    /\ \E cls \in declared \cup {Thing}, raw \in RawNames, flag \in BOOLEAN :
      LET name == owl_name(raw, TRUE) IN
      \E id \in {i \in instances_of(cls) : i.name = name} :
        /\ IF found_outcome(flag) = "reclassified"
           THEN LET g == [instances EXCEPT ![id].is_instance_of =
                             set_class_of_instance(@, cls)]
                IN /\ instances' = with_fancy_name(g, id, name, raw)
                   /\ last' = [op |-> "add_instance", cls |-> cls, name |-> raw,
                               add_to_class_if_existing |-> flag,
                               outcome |-> "reclassified", instance |-> id]
           ELSE /\ instances' = instances
                /\ last' = [op |-> "add_instance", cls |-> cls, name |-> raw,
                            add_to_class_if_existing |-> flag,
                            outcome |-> "KeyError", instance |-> id]
        /\ Called

\* add_instance(cls, name, ...) finding none: instance = cls(name)
AddInstanceNew ==
    /\ nops < MaxOps
    /\ \E cls \in declared \cup {Thing}, raw \in RawNames, flag \in BOOLEAN :
      LET name == owl_name(raw, TRUE)
          id == [ns |-> class_namespace(cls), name |-> name]
          g == IF id \in existing
               THEN [instances EXCEPT ![id].is_instance_of = @ \cup {cls}]
               ELSE [i \in existing \cup {id} |->
                        IF i = id THEN [is_instance_of |-> {cls}, props |-> NoProps]
                        ELSE instances[i]]
      IN
        /\ {i \in instances_of(cls) : i.name = name} = {}
        /\ instances' = with_fancy_name(g, id, name, raw)
        /\ last' = [op |-> "add_instance", cls |-> cls, name |-> raw,
                    outcome |-> IF id \in existing THEN "appended" ELSE "created",
                    instance |-> id]
        /\ Called

SetClassOfInstance ==
    /\ nops < MaxOps
    /\ \E id \in existing, cls \in declared \cup {Thing} :
        /\ instances' = [instances EXCEPT ![id].is_instance_of =
                            set_class_of_instance(@, cls)]
        /\ last' = [op |-> "set_class_of_instance", instance |-> id, cls |-> cls,
                    before |-> instances[id].is_instance_of]
        /\ Called

AddProperty ==
    /\ nops < MaxOps
    /\ \E id \in existing, value \in Literals \cup existing :
        /\ instances' = [instances EXCEPT ![id].props = add_property(@, RelatedTo, value)]
        /\ last' = [op |-> "add_property", instance |-> id, property |-> RelatedTo,
                    value |-> value]
        /\ Called

\* merge_instances(instance1, instance2, cls): the graph after the call
merged_graph(instance1, instance2) ==
    LET copied == [instances EXCEPT ![instance1].props =
                      [p \in PropNames |->
                          IF p # FancyName THEN @[p] \cup instances[instance2].props[p]
                          ELSE @[p]]]
    IN destroy_entity(copied, instance2)

\* merge_instances without the second membership test
merge_guard_first_only(instance1, instance2, cls) ==
    instance1 \in instances_of(cls) /\ instance2 \in existing

\* lines 154-158: both instances are among cls.instances()
merge_guard(instance1, instance2, cls) ==
    instance1 \in instances_of(cls) /\ instance2 \in instances_of(cls)

\* the individuals a caller can hand to merge_instances: those of the graph
\* and one that is not (or no longer) in it
MergeArguments ==
    existing \cup (IF InstanceIds \subseteq existing THEN {}
                   ELSE {CHOOSE i \in InstanceIds \ existing : TRUE})

MergeInstances ==
    /\ nops < MaxOps
    /\ \E instance1 \in MergeArguments, instance2 \in MergeArguments,
       cls \in declared \cup {Thing} :
        /\ IF merge_guard(instance1, instance2, cls)
           THEN /\ instances' = merged_graph(instance1, instance2)
                /\ last' = [op |-> "merge_instances", instance1 |-> instance1,
                            instance2 |-> instance2, cls |-> cls, ret |-> TRUE]
           ELSE /\ instances' = instances
                /\ last' = [op |-> "merge_instances", instance1 |-> instance1,
                            instance2 |-> instance2, cls |-> cls, ret |-> FALSE]
        /\ Called

Next ==
    \/ AddInstanceExisting
    \/ AddInstanceNew
    \/ SetClassOfInstance
    \/ AddProperty
    \/ MergeInstances

Spec == InitGraph /\ [][Next]_vars

-----------------------------------------------------------------------------
(* Properties of the KnowledgeGraph operations *)

\* no class of S is a strict ancestor of another class of S
MostSpecific(S) == \A c1 \in S, c2 \in S : c1 \notin ancestors(c2, FALSE)

ClassesOf(id) == instances[id].is_instance_of

\* C1: after each set_class_of_instance(instance, cls) call, in a state
\* reached by add_instance, set_class_of_instance and merge_instances calls,
\* the instance's direct classes are not empty and none of them is a strict
\* ancestor of another.
C1_MostSpecificAfterSetClass ==
    last.op = "set_class_of_instance" =>
        /\ ClassesOf(last.instance) # {}
        /\ MostSpecific(ClassesOf(last.instance))

\* C2: merge_instances(survivor, absorbed, cls) with both among the
\* instances of cls returns true, the absorbed instance is gone afterwards,
\* and every value it held in a property other than fancyName is a value of
\* the same property of the survivor.
C2_MergeAbsorbs ==
    [][ (/\ last'.op = "merge_instances"
         /\ last'.instance1 \in instances_of(last'.cls)
         /\ last'.instance2 \in instances_of(last'.cls))
        => /\ last'.ret = TRUE
           /\ last'.instance2 \notin DOMAIN instances'
           /\ \A p \in PropNames \ {FancyName} :
                \A v \in instances[last'.instance2].props[p] :
                    /\ last'.instance1 \in DOMAIN instances'
                    /\ v \in instances'[last'.instance1].props[p] ]_vars

\* C3: merge_instances with a survivor or an absorbed instance that is not
\* among the instances of cls returns false and changes nothing in the graph.
C3_MergeRefused ==
    [][ (/\ last'.op = "merge_instances"
         /\ \/ last'.instance1 \notin instances_of(last'.cls)
            \/ last'.instance2 \notin instances_of(last'.cls))
        => /\ last'.ret = FALSE
           /\ instances' = instances ]_vars

\* a merge refused although both instances exist: the absorbed one is not
\* an instance of the scoping class
C3_Witness ==
    /\ last.op = "merge_instances" /\ last.ret = FALSE
    /\ last.instance1 \in instances_of(last.cls)
    /\ last.instance2 \in existing \ instances_of(last.cls)

\* C4: add_instance(cls, raw_name, add_to_class_if_existing=False) raises
\* KeyError whenever an instance named owl_name(raw_name) is among the
\* instances of cls, and the failing call changes nothing in the graph.
C4_DuplicateRaises ==
    [][ (/\ last'.op = "add_instance"
         /\ \E i \in instances_of(last'.cls) : i.name = owl_name(last'.name, TRUE)
         /\ "add_to_class_if_existing" \in DOMAIN last'
         /\ ~last'.add_to_class_if_existing)
        => /\ last'.outcome = "KeyError"
           /\ instances' = instances ]_vars

\* a call that raised KeyError for a raw name that differs from the
\* canonical name of the instance found
C4_Witness ==
    /\ last.op = "add_instance" /\ last.outcome = "KeyError"
    /\ last.name # last.instance.name
    /\ last.instance \in instances_of(last.cls)

C11_SurvivorKept ==
    [][ (last'.op = "merge_instances" /\ last'.ret = TRUE)
        => /\ last'.instance1 \in DOMAIN instances'
           /\ instances'[last'.instance1].is_instance_of
                  = instances[last'.instance1].is_instance_of ]_vars

-----------------------------------------------------------------------------
(* Properties of the graph-free functions *)

MaxOf(x, y) == IF x >= y THEN x ELSE y

\* C5: overlap(A, B) terminates (within max(len A, len B) + 1 iterations of
\* its loop) and returns true exactly when A and B share an element.
C5_OverlapCorrect ==
    o_res.op = "overlap" =>
        /\ o_res.ret = (Range(o_a) \cap Range(o_b) # {})
        /\ o_res.rounds <= MaxOf(Len(o_a), Len(o_b)) + 1

\* overlap returned true on sequences of different lengths, one with a
\* repeated element, after the shorter one was exhausted
C5_Witness ==
    /\ o_res.op = "overlap" /\ o_res.ret = TRUE
    /\ Len(o_a) < Len(o_b)
    /\ o_res.rounds > Len(o_a)
    /\ Cardinality(Range(o_b)) < Len(o_b)

\* C6: subtype(a, a, strict=False) is true, subtype(a, a, strict=True) is
\* false, and subtype(a, b, s) = supertype(b, a, s), for all classes a, b of
\* the taxonomy (owl:Thing included) and both values of s.
C6_SubtypeContract ==
    /\ t_last.op = "subtype" =>
         /\ t_last.ret = supertype(t_last.cls2, t_last.cls1, t_last.strict)
         /\ (t_last.cls1 = t_last.cls2 => t_last.ret = ~t_last.strict)
    /\ t_last.op = "supertype" =>
         t_last.ret = subtype(t_last.cls2, t_last.cls1, t_last.strict)

\* a strict subtype query between two different declared classes answered true
C6_Witness ==
    /\ t_last.op = "subtype" /\ t_last.strict /\ t_last.ret = TRUE
    /\ t_last.cls1 # t_last.cls2 /\ t_last.cls2 # Thing

VisitRoot == IF t_last.root = None THEN find_root_class ELSE t_last.root

\* the direct superclasses of c, owl:Thing when none is declared
DirectSupers(c) == IF tax[c] = {} THEN {Thing} ELSE tax[c]

\* no class below root is reached along two paths
SingleInheritanceBelow(root) ==
    \A c \in descendants(root, FALSE) :
        Cardinality(DirectSupers(c) \cap descendants(root, TRUE)) <= 1

\* how many chains of direct-subclass links lead from root down to c
RECURSIVE PathCount(_, _)
PathCount(root, c) ==
    IF c = root THEN 1
    ELSE IF c = Thing THEN 0
    ELSE LET ups == SetToSeq(DirectSupers(c) \cap descendants(root, TRUE))
             Sum[i \in 0..Len(ups)] ==
                 IF i = 0 THEN 0 ELSE Sum[i - 1] + PathCount(root, ups[i])
         IN Sum[Len(ups)]

Occurrences(s, x) == Cardinality({i \in DOMAIN s : s[i] = x})

\* C7 as stated: the sequence contains every class reachable from root; in
\* postorder each yield of a class comes after a yield of each of its
\* descendants, and in pre-order each yield of a class comes after a yield of
\* each of its ancestors below root.
C7_VisitOrderAsClaimed ==
    t_last.op = "visit_classes_depth_first" =>
        LET ret == t_last.ret IN
        /\ Range(ret) = descendants(VisitRoot, TRUE)
        /\ t_last.postorder =>
             \A i \in DOMAIN ret : \A d \in descendants(ret[i], FALSE) :
                 \E j \in 1..(i - 1) : ret[j] = d
        /\ ~t_last.postorder =>
             \A j \in DOMAIN ret :
                 \A p \in (ancestors(ret[j], FALSE) \cap Range(ret)) :
                     \E i \in 1..(j - 1) : ret[i] = p

\* C7 (amended): the sequence contains exactly the classes reachable from
\* root, each once per chain of direct-subclass links from root; in postorder each yield of a class comes after a yield of each of
\* its descendants; in pre-order each yield of a class comes before a yield
\* of each of its descendants; and when no class below root has several
\* direct superclasses below root, every class is yielded once, so a parent
\* comes after (postorder) or before (pre-order) all its descendants.
C7_VisitOrder ==
    t_last.op = "visit_classes_depth_first" =>
        LET ret == t_last.ret IN
        /\ Range(ret) = descendants(VisitRoot, TRUE)
        /\ \A c \in Range(ret) : Occurrences(ret, c) = PathCount(VisitRoot, c)
        /\ t_last.postorder =>
             \A i \in DOMAIN ret : \A d \in descendants(ret[i], FALSE) :
                 \E j \in 1..(i - 1) : ret[j] = d
        /\ ~t_last.postorder =>
             \A i \in DOMAIN ret : \A d \in descendants(ret[i], FALSE) :
                 \E j \in (i + 1)..Len(ret) : ret[j] = d
        /\ SingleInheritanceBelow(VisitRoot) =>
             /\ Len(ret) = Cardinality(Range(ret))
             /\ \A i, j \in DOMAIN ret :
                   ret[j] \in descendants(ret[i], FALSE) =>
                       IF t_last.postorder THEN j < i ELSE i < j

\* the chain Animal > Bird > Penguin visited from Animal in postorder
C7_Witness ==
    /\ t_last.op = "visit_classes_depth_first"
    /\ t_last.root = "Animal" /\ t_last.postorder
    /\ t_last.ret = <<"Penguin", "Bird", "Animal">>

\* the classes that sit directly under owl:Thing
TopLevel == {c \in declared : tax[c] = {}}

\* C8: _find_root_class returns the only top-level class when there is
\* exactly one, and owl:Thing when there are none or several.
C8_FindRoot ==
    t_last.op = "_find_root_class" =>
        /\ Cardinality(TopLevel) = 1 => t_last.ret \in TopLevel
        /\ Cardinality(TopLevel) # 1 => t_last.ret = Thing

\* two disjoint top-level classes, Animal and Vehicle: owl:Thing is returned
C8_Witness ==
    /\ t_last.op = "_find_root_class" /\ t_last.ret = Thing
    /\ {"Animal", "Vehicle"} \subseteq TopLevel

\* C9: owl_name(owl_name(s, c), c) = owl_name(s, c) for every string s and
\* both values of the flag c.
C9_OwlNameIdempotent ==
    \A k \in 2..Len(n_out) : n_out[k] = n_out[1]

\* a class-mode name with whitespace, a symbol and a transliterated
\* character, canonicalised twice
C9_Witness ==
    /\ Len(n_out) >= 2 /\ ~n_flag
    /\ n_in = <<" ", CjkBei, "!">>
    /\ n_out[1] = <<"B", "e", "i">>

=============================================================================
